---- MODULE Spec2Model ----
(***************************************************************************)
(* Graph construction of the (conditional) Gated PixelCNN of layers.py.   *)
(*                                                                         *)
(* A feature map is abstracted to what the construction fixes: its spatial *)
(* size, its channel count and, for every spatial position, the set of     *)
(* graph inputs (image pixels, the latent vector) its value is computed    *)
(* from.  The built graph is the sequence of layer applications, each with *)
(* its Keras name, its layer index, its operands and the map it yields.    *)
(***************************************************************************)
EXTENDS Integers, Sequences, FiniteSets, TLC

VARIABLES
    self,      \* the PixelCNN instance: constructor arguments, model, predicted
    b,         \* the construction in progress: layers applied so far (g), the
               \* tensor each Python name is bound to (env), a pending exception (err)
    pc,        \* position of the running call
    caller,    \* which entry point started the construction
    args,      \* the arguments of a call of _masked_conv or of a unit on its own
    i,         \* loop index of _build_layers
    predict_result,            \* outcome of predict
    keras_rejects_empty_kernel \* whether the installed Keras refuses a kernel dimension of 0

vars == <<self, b, pc, caller, args, i, predict_result, keras_rejects_empty_kernel>>

----------------------------------------------------------------------------
(* Bounds of the model *)

MaxLayers == 3
MaxH == 2       \* input_size = (MaxH, MaxW)
MaxW == 3
MaxKernel == 3
MaxFilters == 2

\* Defaults of PixelCNN.__init__
DefaultNbChannels == 3
DefaultLatentDim == 10

OddSizes == {k \in 1..MaxKernel : k % 2 = 1}
KernelSizes == OddSizes \X OddSizes
StackNames == {"vertical", "horizontal", "diagonal"}

None == 0                    \* Python None, for tensor-valued names
Latent == <<-1, -1>>         \* the latent vector as a graph input

----------------------------------------------------------------------------
(* Feature maps *)

Positions(h, w) == (0..(h - 1)) \X (0..(w - 1))

Min(m, n) == IF m < n THEN m ELSE n
Max(m, n) == IF m < n THEN n ELSE m

\* An Input placeholder of an image: every pixel is its own input.
ImageTensor(h, w, ch) ==
    [h |-> h, w |-> w, ch |-> ch, dep |-> [p \in Positions(h, w) |-> {p}]]

\* An Input placeholder of a latent vector, shape (latent_dim,).
LatentTensor(dim) ==
    [h |-> 1, w |-> 1, ch |-> dim, dep |-> [p \in Positions(1, 1) |-> {Latent}]]

\* ZeroPadding2D(padding=((top, bottom), (left, right))): padded cells read nothing.
T_ZeroPad(t, top, bottom, left, right) ==
    [h |-> t.h + top + bottom, w |-> t.w + left + right, ch |-> t.ch,
     dep |-> [p \in Positions(t.h + top + bottom, t.w + left + right) |->
                IF /\ p[1] - top \in 0..(t.h - 1)
                   /\ p[2] - left \in 0..(t.w - 1)
                THEN t.dep[<<p[1] - top, p[2] - left>>]
                ELSE {}]]

\* Conv2D(filters, (kh, kw), padding='valid'), stride 1: output (r, c) reads the
\* window of rows r..r+kh-1 and columns c..c+kw-1 over all input channels.
T_Conv(t, filters, kh, kw) ==
    [h |-> t.h - kh + 1, w |-> t.w - kw + 1, ch |-> filters,
     dep |-> [p \in Positions(t.h - kh + 1, t.w - kw + 1) |->
                UNION {t.dep[<<p[1] + dr, p[2] + dc>>] :
                         dr \in 0..(kh - 1), dc \in 0..(kw - 1)}]]

\* x[:, :rows, :cols, :]
T_Slice(t, rows, cols) ==
    [h |-> Min(rows, t.h), w |-> Min(cols, t.w), ch |-> t.ch,
     dep |-> [p \in Positions(Min(rows, t.h), Min(cols, t.w)) |-> t.dep[p]]]

\* x[:, :, :, lo:hi]
T_Channels(t, lo, hi) ==
    [t EXCEPT !.ch = Max(Min(hi, t.ch) - Min(lo, t.ch), 0)]

\* Shapes two operands of an elementwise merge may have: equal, or 1 on one side.
DimOK(m, n) == m = n \/ m = 1 \/ n = 1
BroadcastOK(s, t) == DimOK(s.h, t.h) /\ DimOK(s.w, t.w) /\ DimOK(s.ch, t.ch)
BDim(m, n) == IF m = 1 THEN n ELSE m
BIdx(k, n) == IF n = 1 THEN 0 ELSE k

\* Elementwise a (+) b with broadcasting.
T_Merge(s, t) ==
    [h |-> BDim(s.h, t.h), w |-> BDim(s.w, t.w), ch |-> BDim(s.ch, t.ch),
     dep |-> [p \in Positions(BDim(s.h, t.h), BDim(s.w, t.w)) |->
                s.dep[<<BIdx(p[1], s.h), BIdx(p[2], s.w)>>]
                  \cup t.dep[<<BIdx(p[1], t.h), BIdx(p[2], t.w)>>]]]

\* Dense(units) and Reshape((1, 1, units)) on a vector.
T_Dense(t, units) == [t EXCEPT !.ch = units]

----------------------------------------------------------------------------
(* The construction in progress *)

\* Python names a tensor (or None) can be bound to during construction: the
\* attributes self.h and self.v_map, and the locals of _build_layers,
\* _masked_conv, _feed_v_map and the two __call__ methods.
Names ==
    {"None", "self.h", "self.v_map",
     "x", "v_masked_map", "v_feed_map", "v_stack_out", "h_masked_map",
     "h_stack_out", "h_stack_out_prev", "res",
     "_masked_conv.res", "_feed_v_map.x",
     "xW", "hV", "xW_f", "xW_g", "__call__.res"}

EmptyGraph == [g |-> <<>>, env |-> [n \in Names |-> None], err |-> "none"]

\* The map a name is bound to (names are bound to positions in g).
T(bb, name) == bb.g[bb.env[name]].t

\* dst = <layer name_idx>(operands): the layer is added to the graph, dst is bound
\* to the map it yields.
Emit(bb, name, idx, op, ins, t, dst) ==
    [bb EXCEPT !.g = Append(@, [name |-> name, idx |-> idx, op |-> op,
                                 ins |-> ins, t |-> t]),
               !.env[dst] = Len(bb.g) + 1]

\* dst = src
Move(bb, src, dst) ==
    IF bb.err # "none" THEN bb ELSE [bb EXCEPT !.env[dst] = bb.env[src]]

\* A Python exception leaving the running call.
Raise(bb, e) == [bb EXCEPT !.err = e]

Input(bb, name, t, dst) == Emit(bb, name, -1, "Input", <<>>, t, dst)

ZeroPadding2D(bb, src, top, bottom, left, right, name, idx, dst) ==
    IF bb.err # "none" THEN bb
    ELSE Emit(bb, name, idx, "ZeroPadding2D", <<bb.env[src]>>,
              T_ZeroPad(T(bb, src), top, bottom, left, right), dst)

\* Conv2D(filters, (kh, kw), padding='valid').  A kernel dimension of 0 is refused
\* by Keras releases that validate kernel_size and is carried through the shape
\* arithmetic (an empty kernel) by those that do not.
Conv2D(bb, src, filters, kh, kw, name, idx, dst) ==
    IF bb.err # "none" THEN bb
    ELSE IF (kh < 1 \/ kw < 1) /\ keras_rejects_empty_kernel
         THEN Raise(bb, "ValueError(kernel_size)")
    ELSE IF T(bb, src).h - kh + 1 < 1 \/ T(bb, src).w - kw + 1 < 1
         THEN Raise(bb, "ValueError(shape)")
    ELSE Emit(bb, name, idx, "Conv2D", <<bb.env[src]>>,
              T_Conv(T(bb, src), filters, kh, kw), dst)

\* Add / Multiply / Lambda(x[0]+x[1]): an elementwise merge of two maps.
Merge(bb, src1, src2, op, name, idx, dst) ==
    IF bb.err # "none" THEN bb
    ELSE IF ~BroadcastOK(T(bb, src1), T(bb, src2)) THEN Raise(bb, "ValueError(shape)")
    ELSE Emit(bb, name, idx, op, <<bb.env[src1], bb.env[src2]>>,
              T_Merge(T(bb, src1), T(bb, src2)), dst)

\* A pointwise layer (tanh, sigmoid, relu).
Pointwise(bb, src, op, name, idx, dst) ==
    IF bb.err # "none" THEN bb
    ELSE Emit(bb, name, idx, op, <<bb.env[src]>>, T(bb, src), dst)

\* Lambda(lambda x: x[:, :, :, lo:hi]); hi = -1 stands for the open end `lo:`.
ChannelSlice(bb, src, lo, hi, name, idx, dst) ==
    IF bb.err # "none" THEN bb
    ELSE Emit(bb, name, idx, "Lambda", <<bb.env[src]>>,
              T_Channels(T(bb, src), lo, IF hi = -1 THEN T(bb, src).ch ELSE hi), dst)

Dense(bb, src, units, name, idx, dst) ==
    IF bb.err # "none" THEN bb
    ELSE Emit(bb, name, idx, "Dense", <<bb.env[src]>>, T_Dense(T(bb, src), units), dst)

Reshape(bb, src, units, name, idx, dst) ==
    IF bb.err # "none" THEN bb
    ELSE IF T(bb, src).ch # units THEN Raise(bb, "ValueError(shape)")
    ELSE Emit(bb, name, idx, "Reshape", <<bb.env[src]>>, T(bb, src), dst)

----------------------------------------------------------------------------
(* GatedCNN and ReLUCNN *)

\* _crop_right dropping the leftmost column instead of the rightmost: x[:, :, 1:, :]
_crop_right_Left(t) ==
    [h |-> t.h, w |-> Max(t.w - 1, 0), ch |-> t.ch,
     dep |-> [p \in Positions(t.h, Max(t.w - 1, 0)) |-> t.dep[<<p[1], p[2] + 1>>]]]

\* GatedCNN._crop_right / ReLUCNN._crop_right: x[:, :, :x_shape[2]-1, :]
_crop_right(t) == T_Slice(t, t.h, t.w - 1)

CropRight(bb, src, layer_idx, dst) ==
    IF bb.err # "none" THEN bb
    ELSE Emit(bb, "h_crop_right", layer_idx, "Lambda", <<bb.env[src]>>,
              _crop_right(T(bb, src)), dst)

\* The object GatedCNN(...) / ReLUCNN(...) constructs; v_map and h are the names
\* whose values were passed in.
Unit(nb_filters, stack_name, v_map, h, crop_right) ==
    [nb_filters |-> nb_filters, stack_name |-> stack_name, v_map |-> v_map,
     h |-> h, crop_right |-> crop_right]

\* The if/elif at the head of __call__ binds stack_tag for the two known stacks
\* only; for any other stack_name the first read of stack_tag raises.
StackTagBound(u) == u.stack_name \in {"vertical", "horizontal"}
StackTag(u) == IF u.stack_name = "vertical" THEN "v" ELSE "h"

ReadStackTag(bb, u) ==
    IF bb.err = "none" /\ ~StackTagBound(u) THEN Raise(bb, "UnboundLocalError") ELSE bb

\* The latent merge with its sum not bound back to xW.
MergeLatent_NotRebound(bb, u, units, layer_idx) ==
    LET tag == StackTag(u)
        b1 == Dense(bb, u.h, units, tag \o "_dense_latent", layer_idx, "hV")
        b2 == Reshape(b1, "hV", units, tag \o "_reshape_latent", layer_idx, "hV")
    IN IF bb.env[u.h] # None
       THEN Merge(b2, "xW", "hV", "Lambda", tag \o "_merge_latent", layer_idx, "hV")
       ELSE bb

\* `if self.h is not None:` of both __call__ methods, which differ in the width
\* (units) of the projection only: hV = Dense(units)(self.h), reshaped to
\* (1, 1, units), and xW = xW + hV broadcast over every position.
MergeLatent(bb, u, units, layer_idx) ==
    LET tag == StackTag(u)
        b1 == Dense(bb, u.h, units, tag \o "_dense_latent", layer_idx, "hV")
        b2 == Reshape(b1, "hV", units, tag \o "_reshape_latent", layer_idx, "hV")
    IN IF bb.env[u.h] # None
       THEN Merge(b2, "xW", "hV", "Lambda", tag \o "_merge_latent", layer_idx, "xW")
       ELSE bb

\* into = GatedCNN(...)(xW, layer_idx)
GatedCNN_call(bb, u, xW, layer_idx, into) ==
    LET tag == StackTag(u)
        b0 == Move(bb, xW, "xW")
        b1 == IF u.crop_right THEN CropRight(b0, "xW", layer_idx, "xW") ELSE b0
        b2 == IF bb.env[u.v_map] # None
              THEN Merge(b1, "xW", u.v_map, "Add", "h_merge_v", layer_idx, "xW")
              ELSE b1
        b3 == ReadStackTag(b2, u)
        b6 == MergeLatent(b3, u, 2 * u.nb_filters, layer_idx)
        b7 == ChannelSlice(b6, "xW", 0, u.nb_filters, tag \o "_Wf", layer_idx, "xW_f")
        b8 == ChannelSlice(b7, "xW", u.nb_filters, -1, tag \o "_Wg", layer_idx, "xW_g")
        b9 == Pointwise(b8, "xW_f", "tanh", tag \o "_tanh", layer_idx, "xW_f")
        b10 == Pointwise(b9, "xW_g", "sigmoid", tag \o "_sigmoid", layer_idx, "xW_g")
        b11 == Merge(b10, "xW_f", "xW_g", "Multiply",
                     tag \o "_merge_gate", layer_idx, "__call__.res")
    IN Move(b11, "__call__.res", into)

\* into = ReLUCNN(...)(xW, layer_idx)
ReLUCNN_call(bb, u, xW, layer_idx, into) ==
    LET tag == StackTag(u)
        b0 == Move(bb, xW, "xW")
        b1 == IF u.crop_right THEN CropRight(b0, "xW", layer_idx, "xW") ELSE b0
        b2 == IF bb.env[u.v_map] # None
              THEN Merge(b1, "xW", u.v_map, "Add", "h_merge_v", layer_idx, "xW")
              ELSE b1
        b3 == ReadStackTag(b2, u)
        b6 == MergeLatent(b3, u, u.nb_filters, layer_idx)
        b7 == Pointwise(b6, "xW", "relu", tag \o "_relu_latent", layer_idx, "__call__.res")
    IN Move(b7, "__call__.res", into)

----------------------------------------------------------------------------
(* PixelCNN: the pieces of a layer *)

my_nb_filters(obj) == IF obj.gated THEN 2 * obj.nb_filters ELSE obj.nb_filters

\* into = self._masked_conv(x, filter_size, stack_name, layer_idx, mask_type)
_masked_conv(bb, obj, xx, filter_size, stack_name, layer_idx, mask_type, into) ==
    LET b1 == IF stack_name = "vertical"
              THEN ZeroPadding2D(bb, xx, filter_size[1] \div 2, 0,
                                 filter_size[2] \div 2, filter_size[2] \div 2,
                                 "v_pad", layer_idx, "_masked_conv.res")
              ELSE IF stack_name = "horizontal"
              THEN ZeroPadding2D(bb, xx, 0, 0, filter_size[2] \div 2, 0,
                                 "h_pad", layer_idx, "_masked_conv.res")
              ELSE bb
        b2 == IF stack_name = "vertical"
              THEN Conv2D(b1, "_masked_conv.res", my_nb_filters(obj),
                          filter_size[1] \div 2 + 1, filter_size[2],
                          "v_conv", layer_idx, "_masked_conv.res")
              ELSE IF stack_name = "horizontal"
              THEN IF mask_type = "A"
                   THEN Conv2D(b1, "_masked_conv.res", my_nb_filters(obj),
                               1, filter_size[2] \div 2,
                               "h_conv", layer_idx, "_masked_conv.res")
                   ELSE Conv2D(b1, "_masked_conv.res", my_nb_filters(obj),
                               1, filter_size[2] \div 2 + 1,
                               "h_conv", layer_idx, "_masked_conv.res")
              ELSE IF b1.err = "none"
                   THEN Raise(b1, "UnboundLocalError")  \* `return res`, res never bound
                   ELSE b1
    IN Move(b2, "_masked_conv.res", into)

\* _shift_down with the zero row padded below instead of on top: nothing shifts.
_shift_down_PadBelow(t) == T_Slice(T_ZeroPad(t, 0, 1, 0, 0), t.h, t.w)

\* PixelCNN._shift_down: one zero row on top, then the first x_shape[1] rows.
_shift_down(t) == T_Slice(T_ZeroPad(t, 1, 0, 0, 0), t.h, t.w)

ShiftDown(bb, src, layer_idx, dst) ==
    IF bb.err # "none" THEN bb
    ELSE Emit(bb, "v_shift_down", layer_idx, "Lambda", <<bb.env[src]>>,
              _shift_down(T(bb, src)), dst)

\* _feed_v_map projecting to nb_filters channels instead of my_nb_filters.
_feed_v_map_NbFilters(bb, obj, xx, layer_idx, into) ==
    LET b1 == ShiftDown(bb, xx, layer_idx, "_feed_v_map.x")
        b2 == Conv2D(b1, "_feed_v_map.x", obj.nb_filters, 1, 1,
                     "v_1x1_conv", layer_idx, "_feed_v_map.x")
    IN Move(b2, "_feed_v_map.x", into)

\* into = self._feed_v_map(x, layer_idx)
_feed_v_map(bb, obj, xx, layer_idx, into) ==
    LET b1 == ShiftDown(bb, xx, layer_idx, "_feed_v_map.x")
        b2 == Conv2D(b1, "_feed_v_map.x", my_nb_filters(obj), 1, 1,
                     "v_1x1_conv", layer_idx, "_feed_v_map.x")
    IN Move(b2, "_feed_v_map.x", into)

\* into = GatedCNN(...)(xW, i) if self.gated else ReLUCNN(...)(xW, i)
ActivationUnit(bb, obj, u, xW, layer_idx, into) ==
    IF obj.gated THEN GatedCNN_call(bb, u, xW, layer_idx, into)
    ELSE ReLUCNN_call(bb, u, xW, layer_idx, into)

\* The residual connection left out.
ResidualAdd_Dropped(bb, layer_idx) == bb

\* The residual connection adding the projection to itself.
ResidualAdd_Self(bb, layer_idx) ==
    Merge(bb, "h_stack_out", "h_stack_out", "Add", "h_residual", layer_idx,
          "h_stack_out")

\* `### residual connection`:
\* h_stack_out = Add(name='h_residual_'+str(i))([h_stack_out, h_stack_out_prev])
ResidualAdd(bb, layer_idx) ==
    Merge(bb, "h_stack_out", "h_stack_out_prev", "Add", "h_residual", layer_idx,
          "h_stack_out")

----------------------------------------------------------------------------
(* PixelCNN._build_layers *)

\* The first layer with the vertical feed taken after the activation unit.
FirstLayer_FeedAfterUnit(bb, obj) ==
    LET b1 == _masked_conv(bb, obj, "x", obj.filter_size_1st, "vertical", 0, "B",
                           "v_masked_map")
        b2 == ActivationUnit(b1, obj,
                  Unit(obj.nb_filters, "vertical", "None", "self.h", FALSE),
                  "v_masked_map", 0, "v_stack_out")
        b3 == _feed_v_map(b2, obj, "v_stack_out", 0, "v_feed_map")
        b4 == _masked_conv(b3, obj, "x", obj.filter_size_1st, "horizontal", 0, "A",
                           "h_masked_map")
        b5 == ActivationUnit(b4, obj,
                  Unit(obj.nb_filters, "horizontal", "v_feed_map", "self.h", TRUE),
                  "h_masked_map", 0, "h_stack_out")
    IN Conv2D(b5, "h_stack_out", obj.nb_filters, 1, 1, "h_1x1_conv", 0, "h_stack_out")

\* `# first PixelCNN layer`
FirstLayer(bb, obj) ==
    LET b1 == _masked_conv(bb, obj, "x", obj.filter_size_1st, "vertical", 0, "B",
                           "v_masked_map")
        b2 == _feed_v_map(b1, obj, "v_masked_map", 0, "v_feed_map")
        b3 == ActivationUnit(b2, obj,
                  Unit(obj.nb_filters, "vertical", "None", "self.h", FALSE),
                  "v_masked_map", 0, "v_stack_out")
        b4 == _masked_conv(b3, obj, "x", obj.filter_size_1st, "horizontal", 0, "A",
                           "h_masked_map")
        b5 == ActivationUnit(b4, obj,
                  Unit(obj.nb_filters, "horizontal", "v_feed_map", "self.h", TRUE),
                  "h_masked_map", 0, "h_stack_out")
    IN Conv2D(b5, "h_stack_out", obj.nb_filters, 1, 1, "h_1x1_conv", 0, "h_stack_out")

\* The body of `for i in range(1, self.nb_pixelcnn_layers)`
SubsequentLayer(bb, obj, idx) ==
    LET b1 == _masked_conv(bb, obj, "v_stack_out", obj.filter_size, "vertical", idx, "B",
                           "v_masked_map")
        b2 == _feed_v_map(b1, obj, "v_masked_map", idx, "v_feed_map")
        b3 == ActivationUnit(b2, obj,
                  Unit(obj.nb_filters, "vertical", "None", "self.h", FALSE),
                  "v_masked_map", idx, "v_stack_out")
        b4 == Move(b3, "h_stack_out", "h_stack_out_prev")
        b5 == _masked_conv(b4, obj, "h_stack_out", obj.filter_size, "horizontal", idx, "B",
                           "h_masked_map")
        b6 == ActivationUnit(b5, obj,
                  Unit(obj.nb_filters, "horizontal", "v_feed_map", "self.h", FALSE),
                  "h_masked_map", idx, "h_stack_out")
        b7 == Conv2D(b6, "h_stack_out", obj.nb_filters, 1, 1, "h_1x1_conv", idx,
                     "h_stack_out")
    IN ResidualAdd(b7, idx)

\* `# (1x1) convolution layers (2 layers)` and the output convolution
OutputHead(bb, obj) ==
    LET b1 == Conv2D(bb, "h_stack_out", obj.nb_filters, 1, 1, "penultimate_convs", 0,
                     "h_stack_out")
        b2 == Conv2D(b1, "h_stack_out", obj.nb_filters, 1, 1, "penultimate_convs", 1,
                     "h_stack_out")
    IN Conv2D(b2, "h_stack_out", obj.nb_channels, 1, 1, "conv2d", -1, "res")

\* Names bound on the class PixelCNN itself (its methods): what a classmethod
\* can resolve through its first argument.
ClassAttributes ==
    {"__init__", "_masked_conv", "_shift_down", "_feed_v_map", "_build_layers",
     "build_model", "blockcnn_loss", "fit", "fit_generator", "load_model",
     "export_to_json", "export_to_yaml", "predict", "print_train_parameters",
     "export_train_parameters"}

----------------------------------------------------------------------------
(* The state machine *)

\* No call of _masked_conv or of a unit on its own has been made.
NoArgs ==
    [stack_name |-> "", mask_type |-> "", crop_right |-> FALSE,
     with_v |-> FALSE, with_h |-> FALSE]

\* PixelCNN.__init__
Init ==
    /\ self \in [input_size : {<<MaxH, MaxW>>},
                 nb_channels : {DefaultNbChannels},
                 conditional : BOOLEAN,
                 latent_dim : {DefaultLatentDim},
                 nb_pixelcnn_layers : 1..MaxLayers,
                 nb_filters : 1..MaxFilters,
                 gated : BOOLEAN,
                 filter_size_1st : KernelSizes,
                 filter_size : KernelSizes,
                 model : {"unset"},
                 predicted : {None}]
    /\ b = EmptyGraph
    /\ pc = "new"
    /\ caller = "none"
    /\ args = NoArgs
    /\ i = 0
    /\ predict_result = "none"
    /\ keras_rejects_empty_kernel \in BOOLEAN

InputImage(obj) ==
    ImageTensor(obj.input_size[1], obj.input_size[2], obj.nb_channels)

\* The Input placeholders and `self.h = h` on entry to _build_layers(x, h).
EnterBuildLayers(bb, obj, with_h) ==
    LET b1 == Input(bb, "input_image", InputImage(obj), "x")
    IN IF with_h
       THEN Input(b1, "latent_vector", LatentTensor(obj.latent_dim), "self.h")
       ELSE b1

\* build_model up to and into its call of _build_layers
BuildModel ==
    /\ pc = "new"
    /\ b' = EnterBuildLayers(b, self, self.conditional)
    /\ caller' = "build_model"
    /\ pc' = "first_layer"
    /\ UNCHANGED <<self, args, i, predict_result, keras_rejects_empty_kernel>>

\* _build_layers(x, h) called on the instance directly, with or without h
CallBuildLayers ==
    /\ pc = "new"
    /\ \E with_h \in BOOLEAN : b' = EnterBuildLayers(b, self, with_h)
    /\ caller' = "_build_layers"
    /\ pc' = "first_layer"
    /\ UNCHANGED <<self, args, i, predict_result, keras_rejects_empty_kernel>>

BuildFirstLayer ==
    /\ pc = "first_layer"
    /\ b' = FirstLayer(b, self)
    /\ pc' = IF b'.err # "none" THEN "raised" ELSE "loop"
    /\ i' = 1
    /\ UNCHANGED <<self, caller, args, predict_result, keras_rejects_empty_kernel>>

BuildSubsequentLayer ==
    /\ pc = "loop"
    /\ i < self.nb_pixelcnn_layers
    /\ b' = SubsequentLayer(b, self, i)
    /\ pc' = IF b'.err # "none" THEN "raised" ELSE "loop"
    /\ i' = i + 1
    /\ UNCHANGED <<self, caller, args, predict_result, keras_rejects_empty_kernel>>

BuildHead ==
    /\ pc = "loop"
    /\ i >= self.nb_pixelcnn_layers
    /\ b' = OutputHead(b, self)
    /\ pc' = IF b'.err # "none" THEN "raised" ELSE "returned"
    /\ UNCHANGED <<self, caller, args, i, predict_result, keras_rejects_empty_kernel>>

\* build_model after _build_layers returned: self.predicted, self.model, compile
FinishBuildModel ==
    /\ pc = "returned"
    /\ caller = "build_model"
    /\ self' = [self EXCEPT !.predicted = b.env["res"], !.model = "built"]
    /\ pc' = "done"
    /\ UNCHANGED <<b, caller, args, i, predict_result, keras_rejects_empty_kernel>>

\* load_model(checkpoint_file)
LoadModel ==
    /\ pc = "new"
    /\ self' = [self EXCEPT !.model = "loaded"]
    /\ caller' = "load_model"
    /\ pc' = "done"
    /\ UNCHANGED <<b, args, i, predict_result, keras_rejects_empty_kernel>>

\* predict(x, batch_size): a classmethod, so `self` is the class PixelCNN
Predict ==
    /\ pc = "done"
    /\ predict_result' = IF "model" \in ClassAttributes
                         THEN "prediction" ELSE "AttributeError"
    /\ pc' = "predicted"
    /\ UNCHANGED <<self, b, caller, args, i, keras_rejects_empty_kernel>>

\* res = self._masked_conv(x, filter_size, stack_name, 0, mask_type), with any
\* stack name, on an image-shaped map
CallMaskedConv ==
    /\ pc = "new"
    /\ \E stack_name \in StackNames, mask_type \in {"A", "B"} :
         /\ b' = _masked_conv(Input(b, "input_image", InputImage(self), "x"), self, "x",
                              self.filter_size, stack_name, 0, mask_type, "res")
         /\ args' = [NoArgs EXCEPT !.stack_name = stack_name, !.mask_type = mask_type]
    /\ pc' = IF b'.err # "none" THEN "raised" ELSE "returned"
    /\ caller' = "_masked_conv"
    /\ UNCHANGED <<self, i, predict_result, keras_rejects_empty_kernel>>

\* The operands of a unit called on its own: a pre-activation map, and
\* optionally a vertical map and a latent vector.
UnitOperands(bb, obj, crop_right, with_v, with_h) ==
    LET H == obj.input_size[1]
        W == obj.input_size[2]
        b1 == Input(bb, "xW", ImageTensor(H, IF crop_right THEN W + 1 ELSE W,
                                          my_nb_filters(obj)), "x")
        b2 == IF with_v
              THEN Input(b1, "v_map", ImageTensor(H, W, my_nb_filters(obj)), "self.v_map")
              ELSE b1
    IN IF with_h
       THEN Input(b2, "latent_vector", LatentTensor(obj.latent_dim), "self.h")
       ELSE b2

\* res = GatedCNN(...)(xW, 0) / ReLUCNN(...)(xW, 0), with any stack name, with or
\* without a vertical map, a latent vector and crop_right
CallActivationUnit ==
    /\ pc = "new"
    /\ \E stack_name \in StackNames, crop_right \in BOOLEAN,
          with_v \in BOOLEAN, with_h \in BOOLEAN :
         /\ b' = ActivationUnit(UnitOperands(b, self, crop_right, with_v, with_h), self,
                     Unit(self.nb_filters, stack_name, "self.v_map", "self.h", crop_right),
                     "x", 0, "res")
         /\ args' = [NoArgs EXCEPT !.stack_name = stack_name, !.crop_right = crop_right,
                                   !.with_v = with_v, !.with_h = with_h]
    /\ pc' = IF b'.err # "none" THEN "raised" ELSE "returned"
    /\ caller' = IF self.gated THEN "GatedCNN" ELSE "ReLUCNN"
    /\ UNCHANGED <<self, i, predict_result, keras_rejects_empty_kernel>>

Next ==
    \/ BuildModel
    \/ CallBuildLayers
    \/ BuildFirstLayer
    \/ BuildSubsequentLayer
    \/ BuildHead
    \/ FinishBuildModel
    \/ LoadModel
    \/ Predict
    \/ CallMaskedConv
    \/ CallActivationUnit

Spec == Init /\ [][Next]_vars

----------------------------------------------------------------------------
(* Reading the constructed graph *)

H == self.input_size[1]
W == self.input_size[2]
N == self.nb_pixelcnn_layers

Nodes == 1..Len(b.g)
Named(name, idx) == {n \in Nodes : b.g[n].name = name /\ b.g[n].idx = idx}
AllNamed(name) == {n \in Nodes : b.g[n].name = name}
Shape(n) == <<b.g[n].t.h, b.g[n].t.w>>
Ch(n) == b.g[n].t.ch

\* _build_layers is running or has run, started by build_model or called directly.
InBuild == caller \in {"build_model", "_build_layers"}
\* ... and every layer block so far was constructed without an exception.
LayersBuilt == InBuild /\ pc \in {"loop", "returned", "done", "predicted"}
\* ... and it has returned its result.
Returned == InBuild /\ pc \in {"returned", "done", "predicted"}
\* The construction call has ended, by returning or by raising.
Ended == pc \in {"returned", "done", "predicted", "raised"}

\* The positions strictly after p in raster order.
After(p) ==
    {q \in Positions(H, W) : q[1] > p[1] \/ (q[1] = p[1] /\ q[2] > p[2])}

\* Layers that produce a (batch, H', W', C) map computed from the image.
Spatial(n) == b.g[n].op \notin {"Dense", "Reshape"} /\ b.g[n].name # "latent_vector"

\* The output of a vertical / horizontal activation unit of layer idx.
UnitOut(tag, idx) ==
    Named(tag \o "_merge_gate", idx) \cup Named(tag \o "_relu_latent", idx)

----------------------------------------------------------------------------
(* Claims *)

\* C1 (causality): whatever the layer count, the kernel sizes, gated or ReLU,
\* with or without a latent vector, the horizontal stack's output after every
\* layer and the map _build_layers returns do not read, at any position (r, c),
\* an image pixel strictly after (r, c) in raster order.
C1_Causality ==
    /\ LayersBuilt =>
         \A p \in Positions(H, W) : T(b, "h_stack_out").dep[p] \cap After(p) = {}
    /\ Returned =>
         \A p \in Positions(H, W) : T(b, "res").dep[p] \cap After(p) = {}

\* A three-wide kernel in a stack of at least two layers: the returned map at the
\* last pixel reads the first pixel, and at the first pixel reads no pixel.
C1_Witness ==
    /\ Returned /\ N >= 2
    /\ self.filter_size_1st = <<3, 3>> /\ self.filter_size = <<3, 3>>
    /\ <<0, 0>> \in T(b, "res").dep[<<H - 1, W - 1>>]
    /\ T(b, "res").dep[<<0, 0>>] \cap Positions(H, W) = {}

\* C3 (channel arithmetic): during _build_layers, the map an activation unit
\* activates has 2*nb_filters channels when gated and nb_filters otherwise, both
\* operands of every additive merge have the same channel count, a gated unit
\* yields nb_filters channels, the returned map has nb_channels channels, and no
\* merge is refused for its shapes.
C3_ChannelArithmetic ==
    InBuild =>
      /\ b.err # "ValueError(shape)"
      /\ \A n \in Nodes :
           /\ b.g[n].name \in {"v_conv", "h_conv", "v_1x1_conv"}
                => Ch(n) = my_nb_filters(self)
           /\ b.g[n].name \in {"v_Wf", "h_Wf", "v_Wg", "h_Wg"}
                => Ch(b.g[n].ins[1]) = 2 * self.nb_filters
           /\ b.g[n].op = "relu" => Ch(b.g[n].ins[1]) = self.nb_filters
           /\ b.g[n].name \in {"h_merge_v", "h_residual"}
                => Ch(b.g[n].ins[1]) = Ch(b.g[n].ins[2])
           /\ b.g[n].name \in {"v_merge_latent", "h_merge_latent"}
                => Ch(b.g[n].ins[1]) = Ch(b.g[n].ins[2])
           /\ b.g[n].op = "Multiply"
                => /\ Ch(n) = self.nb_filters
                   /\ Ch(b.g[n].ins[1]) = Ch(b.g[n].ins[2])
           /\ b.g[n].name = "h_residual" => Ch(n) = self.nb_filters
      /\ Returned => Ch(b.env["res"]) = self.nb_channels

\* A gated, conditional stack of at least two layers has been built: it holds
\* vertical-feed, latent and residual merges.
C3_Witness ==
    /\ Returned /\ self.gated /\ self.nb_filters >= 2 /\ N >= 2
    /\ AllNamed("h_merge_latent") # {}
    /\ AllNamed("h_residual") # {}
    /\ AllNamed("h_merge_v") # {}

\* C4 (residual identity): after i layers the graph holds no residual add of
\* layer 0 and exactly one of each layer 1..i-1; a one-layer graph holds none,
\* and its head reads the layer-0 horizontal 1x1 projection itself.
C4_ResidualIdentity ==
    LayersBuilt =>
      /\ Named("h_residual", 0) = {}
      /\ \A k \in 1..(i - 1) : Cardinality(Named("h_residual", k)) = 1
      /\ Cardinality(AllNamed("h_residual")) = i - 1
      /\ (Returned /\ N = 1) =>
           /\ AllNamed("h_residual") = {}
           /\ \A n \in Named("penultimate_convs", 0) :
                b.g[n].ins[1] \in Named("h_1x1_conv", 0)
      /\ Returned => i = Max(N, 1) /\ Named("penultimate_convs", 0) # {}

\* A stack of three layers has been built and returned.
C4_Witness ==
    Returned /\ N = 3 /\ Cardinality(AllNamed("h_residual")) = 2

\* C5 (conditional merge): the model build_model builds with conditional=True
\* reads the latent vector at every position of its output; the one it builds
\* with conditional=False has no latent input and reads none anywhere.
C5_ConditionalMerge ==
    (caller = "build_model" /\ Returned) =>
      /\ self.conditional =>
           \A p \in Positions(H, W) : Latent \in T(b, "res").dep[p]
      /\ ~self.conditional =>
           /\ AllNamed("latent_vector") = {}
           /\ \A p \in Positions(H, W) : Latent \notin T(b, "res").dep[p]

\* build_model has built a conditional gated model of several layers.
C5_Witness ==
    /\ caller = "build_model" /\ pc = "done" /\ self.conditional /\ self.gated
    /\ N >= 2 /\ self.model = "built"

C6_UnknownStackRejectedFirst ==
    (/\ caller \in {"_masked_conv", "GatedCNN", "ReLUCNN"}
     /\ Ended
     /\ args.stack_name \notin {"vertical", "horizontal"})
      => /\ pc = "raised"
         /\ \A n \in Nodes : b.g[n].op = "Input"

\* C7, as claimed: _build_layers called without a latent vector on an instance
\* constructed with conditional=True never returns a graph.
C7_MissingLatentIsFatal ==
    ~(/\ caller = "_build_layers"
      /\ self.conditional
      /\ b.env["self.h"] = None
      /\ Returned)

\* C8, as claimed: predict, called once build_model or load_model has set the
\* instance's model, returns that model's prediction.
C8_PredictReturnsPrediction ==
    pc = "predicted" => predict_result = "prediction"

\* C9, as claimed: the vertical feed projector of layer idx shifts the output of
\* that layer's vertical activation unit.
C9_FeedReadsUnitOutput ==
    LayersBuilt =>
      \A n \in AllNamed("v_shift_down") :
        b.g[n].ins[1] \in UnitOut("v", b.g[n].idx)

\* C9, amended: the vertical feed projector of every layer idx shifts the output
\* of that layer's vertical masked convolution, and is constructed between that
\* convolution and the layer's vertical activation unit, which reads the same
\* convolution.
C9_FeedReadsMaskedConv ==
    LayersBuilt =>
      /\ \A idx \in 0..(i - 1) : Cardinality(Named("v_shift_down", idx)) = 1
      /\ \A n \in AllNamed("v_shift_down") :
           /\ b.g[n].ins[1] \in Named("v_conv", b.g[n].idx)
           /\ \A m \in Named("v_1x1_conv", b.g[n].idx) : b.g[m].ins = <<n>>
           /\ \A u \in UnitOut("v", b.g[n].idx) : n < u
           /\ \A u \in Nodes :
                (/\ b.g[u].idx = b.g[n].idx
                 /\ b.g[u].name \in {"v_Wf", "v_relu_latent", "v_merge_latent"}
                 /\ b.g[b.g[u].ins[1]].name = "v_conv")
                  => b.g[u].ins[1] = b.g[n].ins[1]

\* Two layers have been built, each with its vertical feed projector.
C9_Witness ==
    /\ LayersBuilt /\ i >= 2
    /\ Named("v_shift_down", 0) # {} /\ Named("v_shift_down", 1) # {}
    /\ UnitOut("v", 1) # {}

\* The node the horizontal path of layer idx >= 1 starts from: the 1x1
\* projection of layer 0 for idx = 1, the residual sum of layer idx-1 after.
PrevHorizontalOut(idx) ==
    IF idx = 1 THEN Named("h_1x1_conv", 0) ELSE Named("h_residual", idx - 1)

\* C10, as claimed: at every layer idx >= 1 the horizontal masked convolution
\* reads, and the residual add sums in, the 1x1 projection of layer idx-1.
C10_ResidualFromPrevProjection ==
    LayersBuilt =>
      /\ \A n \in AllNamed("h_residual") :
           /\ b.g[n].ins[1] \in Named("h_1x1_conv", b.g[n].idx)
           /\ b.g[n].ins[2] \in Named("h_1x1_conv", b.g[n].idx - 1)
      /\ \A n \in AllNamed("h_pad") :
           b.g[n].idx >= 1 => b.g[n].ins[1] \in Named("h_1x1_conv", b.g[n].idx - 1)

\* C10, amended: at every layer idx >= 1 the horizontal masked convolution
\* reads, and the residual add sums with layer idx's 1x1 projection, the
\* previous layer's horizontal output: the 1x1 projection of layer 0 when
\* idx = 1, the residual sum h_residual_(idx-1) when idx >= 2.
C10_ResidualFromPrevOutput ==
    LayersBuilt =>
      /\ \A n \in AllNamed("h_residual") :
           /\ b.g[n].ins[1] \in Named("h_1x1_conv", b.g[n].idx)
           /\ b.g[n].ins[2] \in PrevHorizontalOut(b.g[n].idx)
      /\ \A n \in AllNamed("h_pad") :
           b.g[n].idx >= 1 => b.g[n].ins[1] \in PrevHorizontalOut(b.g[n].idx)

\* Three layers have been built: layer 2 has a residual sum before it.
C10_Witness ==
    /\ LayersBuilt /\ i >= 3
    /\ Named("h_residual", 1) # {} /\ Named("h_residual", 2) # {}


\* The pixels of row r strictly left of column c.
LeftOf(p) == {q \in Positions(H, W) : q[1] = p[1] /\ q[2] < p[2]}

\* The pixels of the rows strictly above row r.
Above(p) == {q \in Positions(H, W) : q[1] < p[1]}

\* C11 (strict causality): whatever the layer count and the kernel sizes, gated
\* or ReLU, the output of _build_layers at (r, c) reads neither a pixel after
\* (r, c) nor the pixel (r, c) itself, and the same holds of the horizontal
\* stack's output after every layer; the first layer's mask-A horizontal map
\* (after the crop) reads at (r, c) only pixels of row r in columns < c; the
\* shifted vertical feed of every layer reads at row r no pixel outside the
\* rows < r, and at row 0 no input at all (neither pixel nor latent vector).
C11_StrictCausality ==
    /\ LayersBuilt =>
         \A p \in Positions(H, W) :
            T(b, "h_stack_out").dep[p] \cap (After(p) \cup {p}) = {}
    /\ Returned =>
         \A p \in Positions(H, W) : T(b, "res").dep[p] \cap (After(p) \cup {p}) = {}
    /\ InBuild =>
         /\ \A n \in Named("h_crop_right", 0) : \A p \in Positions(H, W) :
               b.g[n].t.dep[p] \subseteq LeftOf(p)
         /\ \A n \in AllNamed("v_shift_down") \cup AllNamed("v_1x1_conv") :
               \A p \in Positions(H, W) :
                  /\ b.g[n].t.dep[p] \cap Positions(H, W) \subseteq Above(p)
                  /\ p[1] = 0 => b.g[n].t.dep[p] = {}

\* Three-wide kernels in a stack of at least two layers: the returned map at
\* (1, 1) reads the pixel to its left and the pixel above and to its right, the
\* mask-A map at (1, 1) reads exactly the pixel to its left, and the second
\* layer's feed at (1, 1) reads the whole row above.
C11_Witness ==
    /\ Returned /\ N >= 2
    /\ self.filter_size_1st = <<3, 3>> /\ self.filter_size = <<3, 3>>
    /\ {<<1, 0>>, <<0, 2>>} \subseteq T(b, "res").dep[<<1, 1>>]
    /\ <<1, 1>> \notin T(b, "res").dep[<<1, 1>>]
    /\ \E n \in Named("h_crop_right", 0) : b.g[n].t.dep[<<1, 1>>] = {<<1, 0>>}
    /\ \E n \in Named("v_shift_down", 1) :
          b.g[n].t.dep[<<1, 1>>] \cap Positions(H, W) = {<<0, c>> : c \in 0..(W - 1)}

============================================================================
